---------------------------- MODULE Spec2Model ----------------------------
(***************************************************************************)
(* RabbitMQRestClient (broker_rest_client/rabbitmq_rest_client.py): a thin *)
(* client of the RabbitMQ HTTP management API.  The client's only field is *)
(* the raw virtual host; every public method builds a path and a JSON body *)
(* and hands them to Requestor.perform_request.  The broker behind the     *)
(* Requestor is the environment: it keeps the bindings, answers every      *)
(* request with a success or an APIError, and is shared with other actors. *)
(*                                                                         *)
(* Python strings are TLA+ strings (f-strings are \o); the raw vhost is a  *)
(* sequence of one-character strings, because quote() works per character. *)
(***************************************************************************)
EXTENDS Naturals, Sequences, FiniteSets, TLC

\* The broker holds at most this many bindings (bound of the model).
MaxBindings == 2

\* Python's None, for the optional filters of get_queue_bindings and for
\* "no json keyword" in perform_request.  No name below equals it.
None == "None"

\* Inputs the callers draw from.
Vhosts == { <<"/">>, <<"d", "e", "v">>, <<"a", " ", "/">> }
Queues == { "q1" }
Topics == { "amq.topic", "t1" }
Keys == { "k1", "k2" }

-----------------------------------------------------------------------------
(* urllib.parse.quote *)

\* Characters quote() never escapes: letters, digits and "_.-~".
AlwaysSafe == { "a", "d", "e", "v", "_", ".", "-", "~" }

\* %XX of the character's UTF-8 byte, upper-case hex.
PercentEncoded(c) ==
    CASE c = "/" -> "%2F"
      [] c = " " -> "%20"
      [] c = "%" -> "%25"

RECURSIVE quote(_, _)
quote(string, safe) ==
    IF string = <<>> THEN ""
    ELSE LET c == Head(string)
         IN (IF c \in AlwaysSafe \cup safe THEN c ELSE PercentEncoded(c))
               \o quote(Tail(string), safe)

-----------------------------------------------------------------------------
VARIABLES
    _vhost,     \* self._vhost: the raw virtual host
    bindings,   \* the broker's bindings, in the order the broker lists them
    pc,         \* "idle": no call in progress; "listed": inside
                \* delete_queue_binding, between its list request and its
                \* delete request; "done": a method has just ended and its
                \* caller holds the result
    locals,     \* delete_queue_binding's queue, topic, key and props at "listed"
    call,       \* the public method called last, with its arguments
    requests,   \* the perform_request calls of that method, with their answers
    outcome,    \* how that method ended: pending, returned a value, raised
    race,       \* what other actors did to the broker since the list request
                \* of delete_queue_binding: "none"; "removed", "recreated":
                \* the binding the call chose; "touched": only other bindings
    assigned,   \* the raw vhost most recently passed to the vhost setter
    lastBind    \* the call before the last one, if it was a successful
                \* bind_queue_to_topic with topic "default" and the broker
                \* has not been changed by another actor since

vars == <<_vhost, bindings, pc, locals, call, requests, outcome, race,
          assigned, lastBind>>

-----------------------------------------------------------------------------
(* The Requestor and the broker behind it *)

\* rest_client.errors.APIError(detail, status_code)
APIError(message, status) == [status |-> status, message |-> message]

\* The errors the Requestor raises for a response that is not a success.
RequestorErrors ==
    { APIError("Not Found", 404), APIError("Internal Server Error", 500) }

Ok == [ok |-> TRUE, error |-> APIError("", 200)]

Failure(error) == [ok |-> FALSE, error |-> error]

\* Any request may fail: the broker, not the client, decides.
Responses == { Ok } \cup { Failure(e) : e \in RequestorErrors }

\* The broker derives a binding's properties_key from its routing key and
\* its arguments: two bindings of one topic, queue and key differ in it.
PropsKey(key, durable) == key \o (IF durable THEN "~d1" ELSE "~d0")

Binding(source, destination, key, props) ==
    [source |-> source, destination |-> destination, routing_key |-> key,
     properties_key |-> props]

\* The broker's exchanges: the topics, and one that is named "default".
Exchanges == Topics \cup { "default" }

\* Every binding a broker of these exchanges, queues and keys can hold.
AllBindings ==
    { Binding(t, q, k, PropsKey(k, d)) :
        t \in Exchanges, q \in Queues, k \in Keys, d \in BOOLEAN }

Contains(seq, b) == \E i \in 1..Len(seq) : seq[i] = b

\* GET api/queues/{vhost}/{queue}/bindings: the queue's bindings, in order.
BrokerList(queue) == SelectSeq(bindings, LAMBDA b : b.destination = queue)

\* POST api/bindings/...: a binding that exists already is not duplicated.
BrokerBind(b) == IF Contains(bindings, b) THEN bindings ELSE Append(bindings, b)

\* DELETE api/bindings/.../{props}: the binding of that exchange, queue and
\* properties key, if the broker holds it.
IsTarget(b, queue, topic, props) ==
    b.source = topic /\ b.destination = queue /\ b.properties_key = props

BrokerHolds(queue, topic, props) ==
    \E i \in 1..Len(bindings) : IsTarget(bindings[i], queue, topic, props)

BrokerUnbind(queue, topic, props) ==
    SelectSeq(bindings, LAMBDA b : ~IsTarget(b, queue, topic, props))

-----------------------------------------------------------------------------
(* RabbitMQRestClient: paths and payloads *)

\* Faulty variant of vhost: quote() with its default safe='/', which leaves
\* slashes as they are.  C5 does not hold of it.
vhost_slash_safe == quote(_vhost, {"/"})

\* The vhost property: the raw value percent-encoded, nothing kept safe.
vhost == quote(_vhost, {})

_get_create_topic_url(name) == "api/exchanges/" \o vhost \o "/" \o name

_get_delete_topic_url(name) == _get_create_topic_url(name)

_get_create_queue_url(name) == "api/queues/" \o vhost \o "/" \o name

_get_bind_queue_url(queue, topic) ==
    "api/bindings/" \o vhost \o "/e/" \o topic \o "/q/" \o queue

_get_delete_queue_url(name) == "api/queues/" \o vhost \o "/" \o name

_get_queue_bindings_url(queue) ==
    "api/queues/" \o vhost \o "/" \o queue \o "/bindings"

_get_delete_queue_binding_url(queue, topic, props) ==
    "api/bindings/" \o vhost \o "/e/" \o topic \o "/q/" \o queue \o "/" \o props

\* A Python dict with no entries.
EmptyDict == [k \in {} |-> TRUE]

\* Faulty variant of create_topic_data: the caller's flag is dropped.  C8
\* does not hold of it.
create_topic_data_transient(durable) ==
    [type |-> "topic", durable |-> FALSE, auto_delete |-> FALSE,
     internal |-> FALSE, arguments |-> EmptyDict]

create_topic_data(durable) ==
    [type |-> "topic", durable |-> durable, auto_delete |-> FALSE,
     internal |-> FALSE, arguments |-> EmptyDict]

create_queue_data(durable) ==
    [durable |-> durable, auto_delete |-> FALSE, arguments |-> EmptyDict]

\* Faulty variant of bind_queue_data: durable beside arguments, as in the
\* topic and queue payloads.  C7 does not hold of it.
bind_queue_data_flat(key, durable) ==
    [routing_key |-> key, durable |-> durable, arguments |-> EmptyDict]

bind_queue_data(key, durable) ==
    [routing_key |-> key, arguments |-> [durable |-> durable]]

\* Faulty variant of resolve_topic: the sentinel is passed on.  C10 (amended)
\* does not hold of it.
resolve_topic_verbatim(topic) == topic

\* bind_queue_to_topic: if topic == 'default': topic = 'amq.topic'
resolve_topic(topic) == IF topic = "default" THEN "amq.topic" ELSE topic

\* Faulty variant of filter_bindings: the key filter reads the unfiltered
\* list.  C4 does not hold of it.
filter_bindings_key_unfiltered(list, topic, key) ==
    IF key # None
    THEN SelectSeq(list, LAMBDA b : b.routing_key = key)
    ELSE IF topic # None
    THEN SelectSeq(list, LAMBDA b : b.source = topic)
    ELSE list

\* get_queue_bindings: the two list comprehensions, each under its "is not None".
filter_bindings(list, topic, key) ==
    LET byTopic == IF topic # None
                   THEN SelectSeq(list, LAMBDA b : b.source = topic)
                   ELSE list
    IN IF key # None
       THEN SelectSeq(byTopic, LAMBDA b : b.routing_key = key)
       ELSE byTopic

\* Faulty variant of first_props: the last match.  C3 does not hold of it.
last_props(found) == found[Len(found)].properties_key

\* delete_queue_binding: props = bindings[0]['properties_key']
first_props(found) == found[1].properties_key

\* Faulty variant of no_binding_error: status 400.  C1 does not hold of it.
no_binding_error_400(queue, topic, key) ==
    APIError("No binding found between topic '" \o topic \o "' and queue '"
             \o queue \o "' with name '" \o key \o "'", 400)

\* delete_queue_binding: the error raised when "not bindings".
no_binding_error(queue, topic, key) ==
    APIError("No binding found between topic '" \o topic \o "' and queue '"
             \o queue \o "' with name '" \o key \o "'", 404)

-----------------------------------------------------------------------------
(* What a call looks like from outside *)

Call(op, name, queue, topic, key, durable) ==
    [op |-> op, name |-> name, queue |-> queue, topic |-> topic, key |-> key,
     durable |-> durable]

NoCall == Call("none", None, None, None, None, FALSE)

NoLocals == [queue |-> None, topic |-> None, key |-> None, props |-> None]

NoOutcome == [kind |-> "none", value |-> None, error |-> APIError("", 0)]

Pending == [kind |-> "pending", value |-> None, error |-> APIError("", 0)]

Returned(value) == [kind |-> "returned", value |-> value, error |-> APIError("", 0)]

Raised(error) == [kind |-> "raised", value |-> None, error |-> error]

\* self.perform_request(method, url, json=json), with the answer it got.
perform_request(method, url, json, response) ==
    [method |-> method, url |-> url, json |-> json, response |-> response]

\* Faulty variant of propagate: the error is caught and the method goes on.
\* C2 (amended) does not hold of it.
propagate_swallowed(response, value) == Returned(value)

\* Faulty variant of propagate: the error is caught and raised anew as a
\* 500.  C6 does not hold of it.
propagate_reinterpreted(response, value) ==
    IF response.ok
    THEN Returned(value)
    ELSE Raised(APIError(response.error.message, 500))

\* No method catches: an APIError raised by perform_request ends the method
\* with that error, a success lets it go on to its return value.
propagate(response, value) ==
    IF response.ok THEN Returned(value) ELSE Raised(response.error)

\* The call that ends now, if it is a successful bind to the "default" topic.
DefaultBindJustDone ==
    IF call.op = "bind_queue_to_topic" /\ call.topic = "default"
       /\ outcome.kind = "returned"
    THEN call
    ELSE NoCall

Init ==
    /\ _vhost = <<"/">>
    /\ bindings = <<>>
    /\ pc = "idle"
    /\ locals = NoLocals
    /\ call = NoCall
    /\ requests = <<>>
    /\ outcome = NoOutcome
    /\ race = "none"
    /\ assigned = <<"/">>
    /\ lastBind = NoCall

\* The parts of a one-request method's step that do not depend on the method.
OneShot(c) ==
    /\ call' = c
    /\ pc' = "done"
    /\ UNCHANGED <<_vhost, assigned, locals, race, lastBind>>

\* @vhost.setter
vhost_setter(value) ==
    /\ pc = "idle"
    /\ _vhost' = value
    /\ assigned' = value
    /\ call' = Call("vhost", value, None, None, None, FALSE)
    /\ requests' = <<>>
    /\ outcome' = Returned(None)
    /\ pc' = "done"
    /\ UNCHANGED <<bindings, locals, race, lastBind>>

create_topic(name, durable) ==
    /\ pc = "idle"
    /\ \E response \in Responses :
        /\ requests' = << perform_request("PUT", _get_create_topic_url(name),
                                          create_topic_data(durable), response) >>
        /\ outcome' = propagate(response, None)
    /\ OneShot(Call("create_topic", name, None, None, None, durable))
    /\ UNCHANGED bindings

\* The broker drops a deleted exchange's bindings.
delete_topic(name) ==
    /\ pc = "idle"
    /\ \E response \in Responses :
        /\ requests' = << perform_request("DELETE", _get_delete_topic_url(name),
                                          None, response) >>
        /\ outcome' = propagate(response, None)
        /\ bindings' = IF response.ok
                       THEN SelectSeq(bindings, LAMBDA b : b.source # name)
                       ELSE bindings
    /\ OneShot(Call("delete_topic", name, None, None, None, FALSE))

create_queue(name, durable) ==
    /\ pc = "idle"
    /\ \E response \in Responses :
        /\ requests' = << perform_request("PUT", _get_create_queue_url(name),
                                          create_queue_data(durable), response) >>
        /\ outcome' = propagate(response, None)
    /\ OneShot(Call("create_queue", name, None, None, None, durable))
    /\ UNCHANGED bindings

bind_queue_to_topic(queue, key, topic, durable) ==
    /\ pc = "idle"
    /\ LET exchange == resolve_topic(topic)
           new == Binding(exchange, queue, key, PropsKey(key, durable))
       IN \E response \in Responses :
           /\ response.ok => Contains(bindings, new) \/ Len(bindings) < MaxBindings
           /\ requests' = << perform_request("POST",
                                             _get_bind_queue_url(queue, exchange),
                                             bind_queue_data(key, durable),
                                             response) >>
           /\ outcome' = propagate(response, None)
           /\ bindings' = IF response.ok THEN BrokerBind(new) ELSE bindings
    /\ OneShot(Call("bind_queue_to_topic", None, queue, topic, key, durable))

\* The broker drops a deleted queue's bindings.
delete_queue(name) ==
    /\ pc = "idle"
    /\ \E response \in Responses :
        /\ requests' = << perform_request("DELETE", _get_delete_queue_url(name),
                                          None, response) >>
        /\ outcome' = propagate(response, None)
        /\ bindings' = IF response.ok
                       THEN SelectSeq(bindings, LAMBDA b : b.destination # name)
                       ELSE bindings
    /\ OneShot(Call("delete_queue", name, None, None, None, FALSE))

get_queue_bindings(queue, topic, key) ==
    /\ pc = "idle"
    /\ \E response \in Responses :
        /\ requests' = << perform_request("GET", _get_queue_bindings_url(queue),
                                          None, response) >>
        /\ outcome' = propagate(response,
                                filter_bindings(BrokerList(queue), topic, key))
    /\ OneShot(Call("get_queue_bindings", None, queue, topic, key, FALSE))
    /\ UNCHANGED bindings

\* delete_queue_binding up to its second request: get_queue_bindings, the
\* "not bindings" test and bindings[0]['properties_key'].
delete_queue_binding_list(queue, topic, key) ==
    /\ pc = "idle"
    /\ call' = Call("delete_queue_binding", None, queue, topic, key, FALSE)
    /\ \E response \in Responses :
        LET listed == propagate(response,
                                filter_bindings(BrokerList(queue), topic, key))
        IN /\ requests' = << perform_request("GET", _get_queue_bindings_url(queue),
                                             None, response) >>
           /\ IF listed.kind = "raised"
              THEN /\ outcome' = listed
                   /\ pc' = "done"
                   /\ locals' = NoLocals
              ELSE IF listed.value = <<>>
              THEN /\ outcome' = Raised(no_binding_error(queue, topic, key))
                   /\ pc' = "done"
                   /\ locals' = NoLocals
              ELSE /\ outcome' = Pending
                   /\ pc' = "listed"
                   /\ locals' = [queue |-> queue, topic |-> topic, key |-> key,
                                 props |-> first_props(listed.value)]
    /\ UNCHANGED <<_vhost, assigned, bindings, race, lastBind>>

\* Faulty variant of delete_queue_binding_delete: the client lists again and
\* raises its own 404 when the binding is gone.  C9 does not hold of it.
delete_queue_binding_delete_rechecked ==
    /\ pc = "listed"
    /\ IF BrokerHolds(locals.queue, locals.topic, locals.props)
       THEN \E response \in Responses :
               /\ requests' = Append(requests,
                      perform_request("DELETE",
                          _get_delete_queue_binding_url(locals.queue,
                                                        locals.topic,
                                                        locals.props),
                          None, response))
               /\ outcome' = propagate(response, None)
               /\ bindings' = IF response.ok
                              THEN BrokerUnbind(locals.queue, locals.topic,
                                                locals.props)
                              ELSE bindings
       ELSE /\ requests' = requests
            /\ outcome' = Raised(no_binding_error(locals.queue, locals.topic,
                                                  locals.key))
            /\ bindings' = bindings
    /\ pc' = "done"
    /\ UNCHANGED <<_vhost, assigned, call, locals, race, lastBind>>

\* delete_queue_binding from its second request on.  The broker answers 404
\* when it holds no such binding.
delete_queue_binding_delete ==
    /\ pc = "listed"
    /\ \E response \in Responses :
        /\ response.ok => BrokerHolds(locals.queue, locals.topic, locals.props)
        /\ requests' = Append(requests,
               perform_request("DELETE",
                   _get_delete_queue_binding_url(locals.queue, locals.topic,
                                                 locals.props),
                   None, response))
        /\ outcome' = propagate(response, None)
        /\ bindings' = IF response.ok
                       THEN BrokerUnbind(locals.queue, locals.topic, locals.props)
                       ELSE bindings
    /\ pc' = "done"
    /\ UNCHANGED <<_vhost, assigned, call, locals, race, lastBind>>

\* The method's caller takes the result; the client is ready for the next call.
returns ==
    /\ pc = "done"
    /\ pc' = "idle"
    /\ call' = NoCall
    /\ requests' = <<>>
    /\ outcome' = NoOutcome
    /\ locals' = NoLocals
    /\ race' = "none"
    /\ lastBind' = DefaultBindJustDone
    /\ UNCHANGED <<_vhost, assigned, bindings>>

-----------------------------------------------------------------------------
(* Another actor on the same broker *)

\* The binding delete_queue_binding chose in its list step.
ChosenBinding(b) ==
    pc = "listed" /\ IsTarget(b, locals.queue, locals.topic, locals.props)

\* Other actors act between the client's calls and inside
\* delete_queue_binding, between its two requests.
other_actor_binds(b) ==
    /\ pc \in {"idle", "listed"}
    /\ ~Contains(bindings, b)
    /\ Len(bindings) < MaxBindings
    /\ bindings' = Append(bindings, b)
    /\ race' = IF pc = "idle" THEN "none"
               ELSE IF ChosenBinding(b) /\ race = "removed" THEN "recreated"
               ELSE IF race = "none" THEN "touched"
               ELSE race
    /\ lastBind' = IF pc = "idle" THEN NoCall ELSE lastBind
    /\ UNCHANGED <<_vhost, assigned, pc, call, requests, outcome, locals>>

other_actor_unbinds(i) ==
    /\ pc \in {"idle", "listed"}
    /\ i \in 1..Len(bindings)
    /\ bindings' = SelectSeq(bindings, LAMBDA b : b # bindings[i])
    /\ race' = IF pc = "idle" THEN "none"
               ELSE IF ChosenBinding(bindings[i]) THEN "removed"
               ELSE IF race = "none" THEN "touched"
               ELSE race
    /\ lastBind' = IF pc = "idle" THEN NoCall ELSE lastBind
    /\ UNCHANGED <<_vhost, assigned, pc, call, requests, outcome, locals>>

-----------------------------------------------------------------------------
Durables == BOOLEAN

Next ==
    \/ \E value \in Vhosts : vhost_setter(value)
    \/ \E name \in Topics, durable \in Durables : create_topic(name, durable)
    \/ \E name \in Topics : delete_topic(name)
    \/ \E name \in Queues, durable \in Durables : create_queue(name, durable)
    \/ \E queue \in Queues, key \in Keys, topic \in Topics \cup {"default"},
          durable \in Durables : bind_queue_to_topic(queue, key, topic, durable)
    \/ \E name \in Queues : delete_queue(name)
    \/ \E queue \in Queues, topic \in Topics \cup {"default", None},
          key \in Keys \cup {None} : get_queue_bindings(queue, topic, key)
    \/ \E queue \in Queues, topic \in Topics \cup {"default"}, key \in Keys :
          delete_queue_binding_list(queue, topic, key)
    \/ delete_queue_binding_delete
    \/ returns
    \/ \E b \in AllBindings : other_actor_binds(b)
    \/ \E i \in 1..MaxBindings : other_actor_unbinds(i)

Spec == Init /\ [][Next]_vars

-----------------------------------------------------------------------------
(* The properties checked *)

\* The percent-encoded form of each raw vhost, written out.
Encoded(raw) ==
    CASE raw = <<"/">> -> "%2F"
      [] raw = <<"d", "e", "v">> -> "dev"
      [] raw = <<"a", " ", "/">> -> "a%20%2F"

Done(op) == pc = "done" /\ call.op = op

Answered(i) == i <= Len(requests) /\ requests[i].response.ok

\* A binding of the queue with this topic as source and this routing key.
Matches(b, queue, topic, key) ==
    b.destination = queue /\ b.source = topic /\ b.routing_key = key

\* C4: get_queue_bindings issues exactly one GET, to the queue's bindings
\* path, and returns, in the broker's order, exactly the listed bindings whose
\* source is the topic (if one is given) and whose routing key is the key (if
\* one is given): the whole list when neither is given, possibly nothing.
C4_GetQueueBindingsFilters ==
    Done("get_queue_bindings") =>
        /\ Len(requests) = 1
        /\ requests[1].method = "GET"
        /\ requests[1].url =
              "api/queues/" \o Encoded(_vhost) \o "/" \o call.queue \o "/bindings"
        /\ Answered(1) =>
              /\ outcome.kind = "returned"
              /\ outcome.value =
                    SelectSeq(bindings, LAMBDA b :
                        /\ b.destination = call.queue
                        /\ call.topic = None \/ b.source = call.topic
                        /\ call.key = None \/ b.routing_key = call.key)
              /\ (call.topic = None /\ call.key = None) =>
                    outcome.value = bindings

\* Both filters given, the broker lists bindings that pass one filter only,
\* and the call returns the one binding that passes both.
C4_Witness ==
    /\ Done("get_queue_bindings")
    /\ call.topic = "t1" /\ call.key = "k1"
    /\ Len(bindings) = 2
    /\ \E i \in 1..2 : bindings[i].source = "t1" /\ bindings[i].routing_key = "k2"
    /\ outcome.kind = "returned"
    /\ Len(outcome.value) = 1

\* The path each method's i-th request must have, from the call's arguments.
PathOf(c, i, encoded) ==
    CASE c.op = "create_topic" -> "api/exchanges/" \o encoded \o "/" \o c.name
      [] c.op = "delete_topic" -> "api/exchanges/" \o encoded \o "/" \o c.name
      [] c.op = "create_queue" -> "api/queues/" \o encoded \o "/" \o c.name
      [] c.op = "delete_queue" -> "api/queues/" \o encoded \o "/" \o c.name
      [] c.op = "bind_queue_to_topic" ->
            "api/bindings/" \o encoded \o "/e/"
               \o (IF c.topic = "default" THEN "amq.topic" ELSE c.topic)
               \o "/q/" \o c.queue
      [] c.op = "get_queue_bindings" ->
            "api/queues/" \o encoded \o "/" \o c.queue \o "/bindings"
      [] c.op = "delete_queue_binding" /\ i = 1 ->
            "api/queues/" \o encoded \o "/" \o c.queue \o "/bindings"
      [] c.op = "delete_queue_binding" /\ i = 2 ->
            "api/bindings/" \o encoded \o "/e/" \o c.topic \o "/q/" \o c.queue
               \o "/" \o locals.props

\* C5: the stored vhost is the raw value last assigned ("/" when none was),
\* whatever methods were called since, and the path of every request holds
\* its percent-encoded form, "/" escaped too.
C5_PathsUseEncodedVhost ==
    /\ _vhost = assigned
    /\ \A i \in 1..Len(requests) :
          requests[i].url = PathOf(call, i, Encoded(assigned))

\* A vhost with a space and a slash was assigned, and a later call's path
\* holds it as a%20%2F.
C5_Witness ==
    /\ assigned = <<"a", " ", "/">>
    /\ Done("create_queue")
    /\ call.name = "q1"
    /\ requests[1].url = "api/queues/a%20%2F/q1"

\* C6: a request that the Requestor answers with an API error is the last
\* request of its method (no retry, no further request), the method has ended,
\* and the caller gets that very error: same status, same message.  A failed
\* list request of delete_queue_binding thus leaves no DELETE behind it.
C6_RequestorErrorsPropagate ==
    \A i \in 1..Len(requests) :
        ~requests[i].response.ok =>
            /\ i = Len(requests)
            /\ pc = "done"
            /\ outcome.kind = "raised"
            /\ outcome.error.status = requests[i].response.error.status
            /\ outcome.error.message = requests[i].response.error.message

\* The list request of delete_queue_binding failed with the broker's 404:
\* the caller has "Not Found", not the client's own message.
C6_Witness ==
    /\ Done("delete_queue_binding")
    /\ Len(requests) = 1
    /\ requests[1].method = "GET"
    /\ ~requests[1].response.ok
    /\ requests[1].response.error.status = 404
    /\ outcome.error.message = "Not Found"

\* C7: bind_queue_to_topic issues exactly one POST, to
\* api/bindings/{encoded vhost}/e/{topic}/q/{queue}, where {topic} is
\* amq.topic for the topic "default" and the topic as given otherwise, with
\* the body {routing_key: key, arguments: {durable: durable}}.
C7_BindRequest ==
    Done("bind_queue_to_topic") =>
        /\ Len(requests) = 1
        /\ requests[1].method = "POST"
        /\ requests[1].url =
              "api/bindings/" \o Encoded(_vhost) \o "/e/"
                 \o (IF call.topic = "default" THEN "amq.topic" ELSE call.topic)
                 \o "/q/" \o call.queue
        /\ requests[1].json =
              [routing_key |-> call.key, arguments |-> [durable |-> call.durable]]

C7_Witness ==
    /\ Done("bind_queue_to_topic")
    /\ call.topic = "default"
    /\ call.durable
    /\ requests[1].url = "api/bindings/%2F/e/amq.topic/q/q1"

\* C8: create_topic issues exactly one PUT to
\* api/exchanges/{encoded vhost}/{name} with the body {type: "topic",
\* durable, auto_delete: false, internal: false, arguments: {}}, and
\* create_queue exactly one PUT to api/queues/{encoded vhost}/{name} with the
\* body {durable, auto_delete: false, arguments: {}}; durable is the caller's.
C8_CreateRequests ==
    /\ Done("create_topic") =>
          /\ Len(requests) = 1
          /\ requests[1].method = "PUT"
          /\ requests[1].url =
                "api/exchanges/" \o Encoded(_vhost) \o "/" \o call.name
          /\ requests[1].json =
                [type |-> "topic", durable |-> call.durable,
                 auto_delete |-> FALSE, internal |-> FALSE,
                 arguments |-> EmptyDict]
    /\ Done("create_queue") =>
          /\ Len(requests) = 1
          /\ requests[1].method = "PUT"
          /\ requests[1].url =
                "api/queues/" \o Encoded(_vhost) \o "/" \o call.name
          /\ requests[1].json =
                [durable |-> call.durable, auto_delete |-> FALSE,
                 arguments |-> EmptyDict]

C8_Witness ==
    /\ Done("create_topic")
    /\ call.durable
    /\ requests[1].json.durable
    /\ requests[1].url = "api/exchanges/dev/t1"

NoBindingMessage(queue, topic, key) ==
    "No binding found between topic '" \o topic \o "' and queue '" \o queue
       \o "' with name '" \o key \o "'"

SomeMatch(queue, topic, key) ==
    \E i \in 1..Len(bindings) : Matches(bindings[i], queue, topic, key)

\* The first binding, in the broker's order, of this queue, topic and key.
FirstMatch(queue, topic, key) ==
    bindings[CHOOSE i \in 1..Len(bindings) :
                /\ Matches(bindings[i], queue, topic, key)
                /\ \A j \in 1..(i - 1) : ~Matches(bindings[j], queue, topic, key)]

\* A step that starts delete_queue_binding and whose list request succeeds.
ListStep == pc = "idle" /\ call'.op = "delete_queue_binding" /\ requests'[1].response.ok

\* C1: when the broker lists no binding of the queue with the call's topic
\* and key, delete_queue_binding ends at once with an API error of status 404
\* whose message names the topic, the queue and the key, having issued the
\* GET and no DELETE.
C1_NoMatchRaises404 ==
    [][ (ListStep /\ ~SomeMatch(call'.queue, call'.topic, call'.key)) =>
           /\ pc' = "done"
           /\ outcome'.kind = "raised"
           /\ outcome'.error.status = 404
           /\ outcome'.error.message =
                 NoBindingMessage(call'.queue, call'.topic, call'.key)
           /\ Len(requests') = 1
           /\ requests'[1].method = "GET" ]_vars

\* The broker holds a binding of the topic under another key only, and the
\* call ended with the client's own 404 after a successful GET.
C1_Witness ==
    /\ Done("delete_queue_binding")
    /\ call.topic = "t1" /\ call.key = "k1"
    /\ Len(requests) = 1
    /\ Answered(1)
    /\ \E i \in 1..Len(bindings) : Matches(bindings[i], "q1", "t1", "k2")
    /\ outcome.error.status = 404
    /\ outcome.error.message =
          "No binding found between topic 't1' and queue 'q1' with name 'k1'"

OneRequestMethods ==
    { "create_topic", "delete_topic", "create_queue", "bind_queue_to_topic",
      "delete_queue", "get_queue_bindings" }

\* C2 as stated: one round trip at most for every method, and exactly two
\* for every call of delete_queue_binding.
C2_AlwaysTwoRoundTrips ==
    pc = "done" =>
        IF call.op = "delete_queue_binding"
        THEN Len(requests) = 2
        ELSE Len(requests) <= 1

\* C2, amended: the six other methods make one round trip per call;
\* delete_queue_binding makes the GET, and then the DELETE exactly when the
\* GET succeeded and listed a binding of the topic and key: two round trips
\* then, one otherwise.
C2_RoundTrips ==
    /\ pc = "listed" =>
          Len(requests) = 1 /\ requests[1].method = "GET" /\ Answered(1)
    /\ (pc = "done" /\ call.op \in OneRequestMethods) => Len(requests) = 1
    /\ Done("vhost") => Len(requests) = 0
    /\ Done("delete_queue_binding") =>
          /\ Len(requests) \in {1, 2}
          /\ requests[1].method = "GET"
          /\ Len(requests) = 2 =>
                Answered(1) /\ requests[2].method = "DELETE"
          /\ (Len(requests) = 1 /\ Answered(1)) =>
                ~SomeMatch(call.queue, call.topic, call.key)

C2_Witness ==
    /\ Done("delete_queue_binding")
    /\ Len(requests) = 2
    /\ requests[1].method = "GET"
    /\ requests[2].method = "DELETE"
    /\ Answered(2)

\* C3: when the broker lists bindings of the queue with the call's topic and
\* key, delete_queue_binding takes the properties_key of the first of them
\* and issues one DELETE, to
\* api/bindings/{encoded vhost}/e/{topic}/q/{queue}/{properties_key}; the
\* broker loses at most one binding by it, one whose source is the topic and
\* whose routing key is the key, and every other binding stays.
C3_FirstMatchDeleted ==
    [][ /\ (ListStep /\ SomeMatch(call'.queue, call'.topic, call'.key)) =>
              /\ pc' = "listed"
              /\ Len(requests') = 1
              /\ locals'.props =
                    FirstMatch(call'.queue, call'.topic, call'.key).properties_key
        /\ (pc = "listed" /\ pc' # "listed") =>
              /\ pc' = "done"
              /\ Len(requests') = 2
              /\ requests'[1] = requests[1]
              /\ requests'[2].method = "DELETE"
              /\ requests'[2].url =
                    "api/bindings/" \o Encoded(_vhost) \o "/e/" \o call.topic
                       \o "/q/" \o call.queue \o "/" \o locals.props
              /\ Len(bindings') >= Len(bindings) - 1
              /\ \A i \in 1..Len(bindings') : Contains(bindings, bindings'[i])
              /\ \A i \in 1..Len(bindings) :
                    ~Contains(bindings', bindings[i]) =>
                        /\ Matches(bindings[i], call.queue, call.topic, call.key)
                        /\ bindings[i].properties_key = locals.props ]_vars

\* Two bindings of t1 and k1 were listed, k1~d1 first: the DELETE named
\* k1~d1, and k1~d0 is still bound.
C3_Witness ==
    /\ Done("delete_queue_binding")
    /\ call.topic = "t1" /\ call.key = "k1"
    /\ race = "none"
    /\ Answered(2)
    /\ requests[2].url = "api/bindings/%2F/e/t1/q/q1/k1~d1"
    /\ bindings = << Binding("t1", "q1", "k1", "k1~d0") >>

\* C9: delete_queue_binding does not look again before it deletes: whatever
\* other actors did to the broker since the list request, the call's second
\* request is the DELETE of the properties_key it read from the list.  If the
\* chosen binding was removed meanwhile, the broker refuses the DELETE and its
\* error is what the caller gets; if it was removed and created again, a
\* DELETE the broker accepts removes it.
C9_DeleteAfterRace ==
    (Done("delete_queue_binding") /\ race # "none") =>
        /\ Len(requests) = 2
        /\ requests[2].method = "DELETE"
        /\ requests[2].url =
              "api/bindings/" \o Encoded(_vhost) \o "/e/" \o call.topic
                 \o "/q/" \o call.queue \o "/" \o locals.props
        /\ race = "removed" =>
              /\ ~Answered(2)
              /\ outcome.kind = "raised"
              /\ outcome.error = requests[2].response.error
        /\ (race = "recreated" /\ Answered(2)) =>
              /\ outcome.kind = "returned"
              /\ \A i \in 1..Len(bindings) :
                    ~(bindings[i].source = call.topic
                      /\ bindings[i].properties_key = locals.props)

\* The chosen binding was removed by another actor after the list request:
\* the DELETE went out all the same and the broker's 404 reached the caller.
C9_Witness ==
    /\ Done("delete_queue_binding")
    /\ race = "removed"
    /\ Len(requests) = 2
    /\ requests[2].response.error.status = 404
    /\ outcome.error.message = "Not Found"

\* The chosen binding was removed and created again by other actors after
\* the list request, and the call then deleted it.
C9_RecreatedThenDeleted ==
    /\ Done("delete_queue_binding")
    /\ race = "recreated"
    /\ Answered(2)
    /\ bindings = <<>>

\* The call before this one was a successful bind_queue_to_topic(queue, key)
\* with the topic left at "default", no other actor has acted since, and this
\* call is of the same queue and key, with the given topic.
AfterDefaultBind(op, topic) ==
    /\ Done(op)
    /\ lastBind.op = "bind_queue_to_topic"
    /\ call.queue = lastBind.queue
    /\ call.key = lastBind.key
    /\ call.topic = topic

BoundToAmqTopic(list) ==
    \E i \in 1..Len(list) : Matches(list[i], call.queue, "amq.topic", call.key)

\* C10 as stated: the binding that bind_queue_to_topic(queue, key) creates
\* with the topic left at "default" is found by
\* get_queue_bindings(queue, "default", key) and deleted by
\* delete_queue_binding(queue, "default", key).
C10_DefaultResolvedEverywhere ==
    /\ (AfterDefaultBind("get_queue_bindings", "default") /\ Answered(1)) =>
          BoundToAmqTopic(outcome.value)
    /\ (AfterDefaultBind("delete_queue_binding", "default") /\ Answered(1)) =>
          /\ Len(requests) = 2
          /\ Answered(2) => ~BoundToAmqTopic(bindings)

\* C10, amended: only bind_queue_to_topic resolves "default".  The binding it
\* creates has the source amq.topic: get_queue_bindings(queue, "amq.topic", key)
\* finds it and delete_queue_binding(queue, "amq.topic", key) deletes the
\* first listed binding of amq.topic and the key, while with the topic
\* "default" get_queue_bindings returns only bindings whose source is
\* "default" and delete_queue_binding leaves the created binding in place: it
\* raises its own 404, or deletes a binding whose source is "default".
C10_DefaultResolvedByBindOnly ==
    /\ (AfterDefaultBind("get_queue_bindings", "amq.topic") /\ Answered(1)) =>
          BoundToAmqTopic(outcome.value)
    /\ (AfterDefaultBind("delete_queue_binding", "amq.topic") /\ Answered(1)) =>
          /\ Len(requests) = 2
          /\ requests[2].url =
                "api/bindings/" \o Encoded(_vhost) \o "/e/amq.topic/q/"
                   \o call.queue \o "/" \o locals.props
          /\ locals.props \in { call.key \o "~d0", call.key \o "~d1" }
          /\ Answered(2) =>
                \A i \in 1..Len(bindings) :
                    ~(bindings[i].source = "amq.topic"
                      /\ bindings[i].properties_key = locals.props)
    /\ (AfterDefaultBind("get_queue_bindings", "default") /\ Answered(1)) =>
          \A i \in 1..Len(outcome.value) : outcome.value[i].source = "default"
    /\ AfterDefaultBind("delete_queue_binding", "default") =>
          /\ race = "none" => BoundToAmqTopic(bindings)
          /\ Len(requests) = 2 =>
                requests[2].url =
                   "api/bindings/" \o Encoded(_vhost) \o "/e/default/q/"
                      \o call.queue \o "/" \o locals.props
          /\ (Len(requests) = 1 /\ Answered(1)) =>
                /\ outcome.kind = "raised"
                /\ outcome.error.status = 404
                /\ outcome.error.message =
                      NoBindingMessage(call.queue, "default", call.key)

\* bind_queue_to_topic("q1", "k1") succeeded, then
\* delete_queue_binding("q1", "default", "k1") raised the client's 404 and
\* the binding to amq.topic is still there.
C10_Witness ==
    /\ AfterDefaultBind("delete_queue_binding", "default")
    /\ Answered(1)
    /\ Len(requests) = 1
    /\ outcome.error.status = 404
    /\ BoundToAmqTopic(bindings)

====
